---- MODULE Spec2Model ----
(***************************************************************************)
(* The SSE bridge of apps/dashboard: the stream-open route (GET /api/sse), *)
(* the message-delivery route (POST /api/messages) and the session         *)
(* registry `transports` they share.                                       *)
(*                                                                         *)
(* Requests are tasks of one event loop.  `running` is the task that is    *)
(* executing synchronous code; a task gives the loop back only at an       *)
(* `await`.  The synchronous part of the GET handler is split into one     *)
(* step per statement, all taken while `running` is that request, so no    *)
(* other task can step in between.                                         *)
(***************************************************************************)
EXTENDS Integers, Sequences, FiniteSets, TLC

\* ------------------------------------------------------------------ bounds
NumGets == 2
NumPosts == 2
MaxErrors == 1

Gets == 1..NumGets
Posts == 1..NumPosts

\* ------------------------------------------------------------ value spaces
\* randomUUID() of the transport constructor: the ids it hands out, in order.
SessionIdPool == <<"id-a", "id-b", "id-c", "id-d", "id-e", "id-f", "id-g", "id-h">>

\* The id of a transport that other code registered.
ExtId == "ext-a"

\* A sessionId query parameter that no transport was ever given.
Nonexistent == "nonexistent"

\* Request bodies as sent on the wire.
RawBodies == {"{\"type\":\"ping\"}", "{\"type\":"}

\* The value of `transports[sessionId]` for a missing key.
Undefined == [sessionId |-> "undefined", owner |-> <<"none", 0>>]

\* The value of a response that was not built.
NoResponse == [status |-> 0, headers |-> "none", body |-> <<"none">>]

\* `new Response(null, ...)`: the body of the message-delivery responses.
NullBody == <<>>

\* The calls a transport may make on the sink.
HeadOk == [op |-> "writeHead", status |-> 200, headers |-> "text/event-stream", data |-> ""]
HeadErr == [op |-> "writeHead", status |-> 500, headers |-> "text/plain", data |-> ""]
WriteEvent == [op |-> "write", status |-> 0, headers |-> "", data |-> "event: endpoint"]
WriteData == [op |-> "write", status |-> 0, headers |-> "", data |-> "data: /api/messages"]

\* What a handshake may do to the sink: nothing, the SDK's head and event,
\* two heads.
Handshakes ==
    { <<>>,
      <<HeadOk, WriteEvent, WriteData>>,
      <<HeadErr, HeadOk>> }

VARIABLES
    transports,      \* the session registry: session id -> transport
    running,         \* the task executing synchronous code, or None
    nextId,          \* how many session ids randomUUID() has handed out
    gpc,             \* GET: position of each stream-open handler
    transport,       \* GET: the handler's `transport`
    resp,            \* GET: the sink's captured body, newStatusCode, newHeaders
    sinkLog,         \* GET: the calls the transport made on the sink, in order
    response,        \* GET: the Response the handler returned
    deleted,         \* GET: how often the close callback (line 35) has run
    closeSignalled,  \* GETs whose transport has signalled close
    ppc,             \* POST: position of each message-delivery handler
    request,         \* POST: the raw body and, once line 9 has read it, the sessionId
    ptransport,      \* POST: the handler's `transport`
    presponse,       \* POST: the Response the handler returned
    issuedAtArrival, \* POST: the ids GET responses had carried when the request arrived,
                     \*       narrowed to the request's own id once line 9 has read it
    calls,           \* POST: the handleMessage invocations the handler made, in order
    settled,         \* POST: how the awaited handleMessage settled
    consoleErrors,   \* how many errors line 32 has written to the console
    registeredAtArrival, \* POST: the session ids registered when it arrived
    removedWhile     \* POST: the await it was at when a session was removed

vars == <<transports, running, nextId, gpc, transport, resp, sinkLog, response,
          deleted, closeSignalled, ppc, request, ptransport, presponse,
          issuedAtArrival, calls, settled, consoleErrors,
          registeredAtArrival, removedWhile>>

getVars == <<gpc, transport, resp, sinkLog, response, deleted>>
postVars == <<ppc, request, ptransport, presponse, issuedAtArrival, calls, settled,
              registeredAtArrival, removedWhile>>

None == <<"none", 0>>
GetTask(g) == <<"GET", g>>

\* -------------------------------------------------------------- the registry
\* export const transports = {} (utils/demo.sse): the registry starts empty.
EmptyRegistry == [k \in {} |-> Undefined]

\* transports[id] = t
RegistryPut(reg, id, t) == [k \in DOMAIN reg \cup {id} |-> IF k = id THEN t ELSE reg[k]]

\* A faulty delete: the entry stays.
RegistryDeleteNothing(reg, id) == reg

\* delete transports[id]
RegistryDelete(reg, id) == [k \in DOMAIN reg \ {id} |-> reg[k]]

\* A faulty lookup: it ignores the key and takes the first entry.
RegistryGetAny(reg, id) ==
    IF DOMAIN reg = {} THEN Undefined ELSE reg[CHOOSE k \in DOMAIN reg : TRUE]

\* transports[id]
RegistryGet(reg, id) == IF id \in DOMAIN reg THEN reg[id] ELSE Undefined

\* A faulty test: if (transport !== null), which undefined passes.
NotNull(t) == TRUE

\* if (transport)
Truthy(t) == t # Undefined

\* ------------------------------------------------------------------ the sink
\* let body = '', newHeaders = {}, newStatusCode = 200
NewSink == [body |-> <<>>, newHeaders |-> "", newStatusCode |-> 200]

\* resp.writeHead(statusCode, headers)
WriteHead(s, statusCode, headers) ==
    [s EXCEPT !.newHeaders = headers, !.newStatusCode = statusCode]

\* A faulty write: body += data, without the newline.
WriteNoNewline(s, data) == [s EXCEPT !.body = Append(@, data)]

\* resp.write(data): body += `${data}\n`
Write(s, data) == [s EXCEPT !.body = Append(Append(@, data), "\n")]

\* A faulty sink: resp.on calls no callback at subscription.
OnNeverCallsBack(event) == FALSE

\* resp.on(event, callback) calls the callback at once for "close" ...
OnCallsBack(event) == event = "close"

\* ... and keeps no observer for a later emission.
CloseObservers(g) == {}

ApplyOp(s, o) ==
    IF o.op = "writeHead" THEN WriteHead(s, o.status, o.headers) ELSE Write(s, o.data)

RECURSIVE ApplyOps(_, _)
ApplyOps(s, ops) ==
    IF ops = <<>> THEN s ELSE ApplyOps(ApplyOp(s, Head(ops)), Tail(ops))

\* A faulty error observer: it also writes the error into the sink.
OnErrorWrites(s) == Write(s, "error")

\* transport.onerror = (error) => { console.error(error) }: the observer
\* leaves the sink as it is.
OnError(s) == s

\* new Response(body, { status: newStatusCode, headers: newHeaders })
BuildResponse(s) ==
    [status |-> s.newStatusCode, headers |-> s.newHeaders, body |-> s.body]

\* ------------------------------------------------------------------- payload
\* request.json(): the decoded payload, or a rejection.
JsonParse(raw) ==
    IF raw = "{\"type\":\"ping\"}"
    THEN [ok |-> TRUE, value |-> [type |-> "ping"]]
    ELSE [ok |-> FALSE, value |-> [type |-> "SyntaxError"]]


\* ------------------------------------------------------ message-delivery parts
\* A faulty forwarding: the payload is handed to the transport twice.
ForwardTwice(cs, t, body) ==
    Append(Append(cs, [transport |-> t, message |-> body]),
           [transport |-> t, message |-> body])

\* transport.handleMessage(body): one invocation is recorded.
Forward(cs, t, body) == Append(cs, [transport |-> t, message |-> body])

\* return new Response(null, { status: 200 })
SuccessResponse == [status |-> 200, body |-> NullBody]

\* catch (_error) { return new Response(null, { status: 500 }) }
FailureResponse == [status |-> 500, body |-> NullBody]

\* else { return new Response(null, { status: 404 }) }
NotFoundResponse == [status |-> 404, body |-> NullBody]

\* A faulty continuation: after the await it looks the session up again and
\* answers 404 when the session is gone.
SettledResponseLooksAgain(ok, reg, id) ==
    IF id \notin DOMAIN reg THEN NotFoundResponse
    ELSE IF ok THEN SuccessResponse ELSE FailureResponse

\* Lines 12 - 17: the answer depends on how handleMessage settled and on
\* nothing else; the registry is not read again.
SettledResponse(ok, reg, id) == IF ok THEN SuccessResponse ELSE FailureResponse

\* A faulty catch block: it tears the session down.
CatchRegistryDelete(reg, id) == RegistryDelete(reg, id)

\* The catch block leaves the registry as it is.
CatchRegistry(reg, id) == reg

NoPostResponse == [status |-> 0, body |-> <<"none">>]
NoRequest == [sessionId |-> "", raw |-> ""]

\* The sessionId parameters a request may carry.
RequestIds == {SessionIdPool[1], ExtId, Nonexistent}

\* The session ids that GET responses have carried so far.
Issued == {transport[g].sessionId : g \in {h \in Gets : gpc[h] = "returned"}}

\* ---------------------------------------------------------------------- Init
Init ==
    /\ transports = EmptyRegistry
    /\ running = None
    /\ nextId = 0
    /\ gpc = [g \in Gets |-> "idle"]
    /\ transport = [g \in Gets |-> Undefined]
    /\ resp = [g \in Gets |-> NewSink]
    /\ sinkLog = [g \in Gets |-> <<>>]
    /\ response = [g \in Gets |-> NoResponse]
    /\ deleted = [g \in Gets |-> 0]
    /\ closeSignalled = {}
    /\ ppc = [p \in Posts |-> "idle"]
    /\ request = [p \in Posts |-> NoRequest]
    /\ ptransport = [p \in Posts |-> Undefined]
    /\ presponse = [p \in Posts |-> NoPostResponse]
    /\ issuedAtArrival = [p \in Posts |-> {}]
    /\ calls = [p \in Posts |-> <<>>]
    /\ settled = [p \in Posts |-> "pending"]
    /\ consoleErrors = 0
    /\ registeredAtArrival = [p \in Posts |-> {}]
    /\ removedWhile = [p \in Posts |-> "no"]

\* ------------------------------------------------- GET /api/sse, lines 8 - 43
\* The request is dispatched: lines 9 - 25 create the sink.
GetStart(g) ==
    /\ running = None
    /\ gpc[g] = "idle"
    /\ \A h \in Gets : h < g => gpc[h] # "idle"
    /\ running' = GetTask(g)
    /\ gpc' = [gpc EXCEPT ![g] = "sink"]
    /\ resp' = [resp EXCEPT ![g] = NewSink]
    /\ UNCHANGED <<transports, nextId, transport, sinkLog, response, deleted,
                   closeSignalled>>
    /\ UNCHANGED postVars
    /\ UNCHANGED consoleErrors

\* A faulty handler: it awaits between the construction and line 30.
YieldsAfterConstruct(g) == None

\* Who holds the event loop between line 29 and line 30: the handler itself,
\* there is no await between them.
RunningAfterConstruct(g) == GetTask(g)

\* Lines 26 - 29: new SSEServerTransport('/api/messages', resp).
GetConstruct(g) ==
    /\ running = GetTask(g)
    /\ gpc[g] = "sink"
    /\ nextId < Len(SessionIdPool)
    /\ transport' = [transport EXCEPT
                        ![g] = [sessionId |-> SessionIdPool[nextId + 1],
                                owner |-> GetTask(g)]]
    /\ nextId' = nextId + 1
    /\ gpc' = [gpc EXCEPT ![g] = "constructed"]
    /\ running' = RunningAfterConstruct(g)
    /\ UNCHANGED <<transports, resp, sinkLog, response, deleted, closeSignalled>>
    /\ UNCHANGED postVars
    /\ UNCHANGED consoleErrors

\* Line 30: transports[transport.sessionId] = transport.
GetRegister(g) ==
    /\ running = RunningAfterConstruct(g)
    /\ gpc[g] = "constructed"
    /\ transports' = RegistryPut(transports, transport[g].sessionId, transport[g])
    /\ gpc' = [gpc EXCEPT ![g] = "registered"]
    /\ running' = GetTask(g)
    /\ UNCHANGED <<nextId, transport, resp, sinkLog, response, deleted,
                   closeSignalled>>
    /\ UNCHANGED postVars
    /\ UNCHANGED consoleErrors

\* Lines 31 - 33: transport.onerror = (error) => console.error(error).
GetSetOnError(g) ==
    /\ running = GetTask(g)
    /\ gpc[g] = "registered"
    /\ gpc' = [gpc EXCEPT ![g] = "onerror"]
    /\ UNCHANGED <<transports, running, nextId, transport, resp, sinkLog, response,
                   deleted, closeSignalled>>
    /\ UNCHANGED postVars
    /\ UNCHANGED consoleErrors

\* Lines 34 - 36: resp.on('close', () => delete transports[transport.sessionId]).
GetOnClose(g) ==
    /\ running = GetTask(g)
    /\ gpc[g] = "onerror"
    /\ IF OnCallsBack("close")
       THEN /\ transports' = RegistryDelete(transports, transport[g].sessionId)
            /\ deleted' = [deleted EXCEPT ![g] = @ + 1]
       ELSE UNCHANGED <<transports, deleted>>
    /\ gpc' = [gpc EXCEPT ![g] = "subscribed"]
    /\ UNCHANGED <<running, nextId, transport, resp, sinkLog, response,
                   closeSignalled>>
    /\ UNCHANGED postVars
    /\ UNCHANGED consoleErrors

\* Line 37: server.connect(transport) is invoked and the handler is suspended
\* at the await.
GetConnect(g) ==
    /\ running = GetTask(g)
    /\ gpc[g] = "subscribed"
    /\ gpc' = [gpc EXCEPT ![g] = "connecting"]
    /\ running' = None
    /\ UNCHANGED <<transports, nextId, transport, resp, sinkLog, response, deleted,
                   closeSignalled>>
    /\ UNCHANGED postVars
    /\ UNCHANGED consoleErrors

\* server.connect resolved, the handshake having made the calls `ops` on the
\* sink (they are private to this handler until now): lines 38 - 42 build and
\* return the response.
ConnectResolve(g, ops) ==
    /\ running = None
    /\ gpc[g] = "connecting"
    /\ resp' = [resp EXCEPT ![g] = ApplyOps(@, ops)]
    /\ sinkLog' = [sinkLog EXCEPT ![g] = ops]
    /\ response' = [response EXCEPT ![g] = BuildResponse(resp'[g])]
    /\ gpc' = [gpc EXCEPT ![g] = "returned"]
    /\ UNCHANGED <<transports, running, nextId, transport, deleted, closeSignalled>>
    /\ UNCHANGED postVars
    /\ UNCHANGED consoleErrors

\* server.connect rejected: nothing catches it, the handler's promise rejects.
ConnectReject(g) ==
    /\ running = None
    /\ gpc[g] = "connecting"
    /\ gpc' = [gpc EXCEPT ![g] = "threw"]
    /\ UNCHANGED <<transports, running, nextId, transport, resp, sinkLog, response,
                   deleted, closeSignalled>>
    /\ UNCHANGED postVars
    /\ UNCHANGED consoleErrors

\* The connection of a stream whose response went out ends and its transport
\* signals close.  The sink kept no observer, so the callback of line 35 is
\* not run.
TransportClose(g) ==
    /\ running = None
    /\ gpc[g] = "returned"
    /\ g \notin closeSignalled
    /\ closeSignalled' = closeSignalled \cup {g}
    /\ IF g \in CloseObservers(g)
       THEN /\ transports' = RegistryDelete(transports, transport[g].sessionId)
            /\ deleted' = [deleted EXCEPT ![g] = @ + 1]
       ELSE UNCHANGED <<transports, deleted>>
    /\ UNCHANGED <<running, nextId, gpc, transport, resp, sinkLog, response>>
    /\ UNCHANGED postVars
    /\ UNCHANGED consoleErrors

\* The transport of a stream reports an error to the observer that lines
\* 31 - 33 installed: line 32 logs it.
TransportError(g) ==
    /\ running = None
    /\ gpc[g] \in {"connecting", "returned"}
    /\ consoleErrors < MaxErrors
    /\ consoleErrors' = consoleErrors + 1
    /\ resp' = [resp EXCEPT ![g] = OnError(@)]
    /\ UNCHANGED <<transports, running, nextId, gpc, transport, sinkLog, response,
                   deleted, closeSignalled>>
    /\ UNCHANGED postVars

\* ------------------------------------------- POST /api/messages, lines 6 - 20
\* The request is dispatched; line 7 awaits request.json().
PostArrive(p, raw) ==
    /\ running = None
    /\ ppc[p] = "idle"
    /\ \A q \in Posts : q < p => ppc[q] # "idle"
    /\ request' = [request EXCEPT ![p] = [sessionId |-> "", raw |-> raw]]
    /\ issuedAtArrival' = [issuedAtArrival EXCEPT ![p] = Issued \cap RequestIds]
    /\ ppc' = [ppc EXCEPT ![p] = "decoding"]
    /\ registeredAtArrival' = [registeredAtArrival EXCEPT ![p] = DOMAIN transports]
    /\ UNCHANGED <<ptransport, presponse, calls, settled, removedWhile>>
    /\ UNCHANGED <<transports, running, nextId, closeSignalled>>
    /\ UNCHANGED getVars
    /\ UNCHANGED consoleErrors

\* request.json() settled.  A rejection leaves the handler at line 7, before
\* the sessionId is read (one `sid` stands for all); else lines 8 - 9 read the
\* sessionId `sid` the request carries, line 10 looks it up, and lines 11 - 13
\* or 18 - 19 follow.
AfterJson(p, sid) ==
    LET decoded == JsonParse(request[p].raw)
        found == RegistryGet(transports, sid)
    IN  IF ~decoded.ok
        THEN /\ sid = Nonexistent
             /\ ppc' = [ppc EXCEPT ![p] = "threw"]
             /\ issuedAtArrival' = [issuedAtArrival EXCEPT ![p] = {}]
             /\ UNCHANGED <<request, ptransport, presponse, calls>>
        ELSE /\ request' = [request EXCEPT ![p].sessionId = sid]
             /\ issuedAtArrival' = [issuedAtArrival EXCEPT ![p] = @ \cap {sid}]
             /\ ptransport' = [ptransport EXCEPT ![p] = found]
             /\ IF Truthy(found)
                THEN /\ calls' = [calls EXCEPT ![p] = Forward(@, found, decoded.value)]
                     /\ ppc' = [ppc EXCEPT ![p] = "handling"]
                     /\ UNCHANGED presponse
                ELSE /\ presponse' = [presponse EXCEPT ![p] = NotFoundResponse]
                     /\ ppc' = [ppc EXCEPT ![p] = "done"]
                     /\ UNCHANGED calls

\* transport.handleMessage(body) settled: lines 13 - 17.
AfterHandleMessage(p, ok) ==
    /\ presponse' = [presponse EXCEPT
                        ![p] = SettledResponse(ok, transports, request[p].sessionId)]
    /\ ppc' = [ppc EXCEPT ![p] = "done"]
    /\ transports' = IF ok THEN transports
                     ELSE CatchRegistry(transports, request[p].sessionId)
    /\ settled' = [settled EXCEPT ![p] = IF ok THEN "resolved" ELSE "rejected"]
    /\ UNCHANGED <<request, ptransport, calls, issuedAtArrival>>

\* The handler is resumed at the await it is suspended at.
PostResume(p) ==
    /\ running = None
    /\ ppc[p] \in {"decoding", "handling"}
    /\ IF ppc[p] = "decoding"
       THEN \E sid \in RequestIds : AfterJson(p, sid) /\ UNCHANGED <<transports, settled>>
       ELSE \E ok \in BOOLEAN : AfterHandleMessage(p, ok)
    /\ UNCHANGED <<running, nextId, closeSignalled>>
    /\ UNCHANGED <<registeredAtArrival, removedWhile>>
    /\ UNCHANGED getVars
    /\ UNCHANGED consoleErrors

\* ------------------------------------------------------------- specifications
Next ==
    \/ \E g \in Gets : GetStart(g)
    \/ \E g \in Gets : GetConstruct(g)
    \/ \E g \in Gets : GetRegister(g)
    \/ \E g \in Gets : GetSetOnError(g)
    \/ \E g \in Gets : GetOnClose(g)
    \/ \E g \in Gets : GetConnect(g)
    \/ \E g \in Gets : \E ops \in Handshakes : ConnectResolve(g, ops)
    \/ \E g \in Gets : ConnectReject(g)
    \/ \E g \in Gets : TransportClose(g)
    \/ \E p \in Posts : \E raw \in RawBodies : PostArrive(p, raw)
    \/ \E p \in Posts : PostResume(p)

Spec == Init /\ [][Next]_vars

\* Before the requests of the run, other code put a transport of its own into
\* the registry (the registry's put(id, transport)); its stream stays open.
ExtTransport == [sessionId |-> ExtId, owner |-> <<"ext", 1>>]

ExternalPut ==
    /\ running = None
    /\ \A g \in Gets : gpc[g] = "idle"
    /\ \A p \in Posts : ppc[p] = "idle"
    /\ ExtId \notin DOMAIN transports
    /\ transports' = RegistryPut(transports, ExtId, ExtTransport)
    /\ UNCHANGED <<running, nextId, closeSignalled>>
    /\ UNCHANGED getVars
    /\ UNCHANGED postVars
    /\ UNCHANGED consoleErrors

NextDeliver == Next \/ ExternalPut

SpecDeliver == Init /\ [][NextDeliver]_vars

\* Other code removes that transport again (the registry's remove(id)), at any
\* point between the steps of the handlers.
ExternalRemove ==
    /\ running = None
    /\ ExtId \in DOMAIN transports
    /\ transports' = RegistryDelete(transports, ExtId)
    /\ removedWhile' = [p \in Posts |->
                           IF ppc[p] \in {"decoding", "handling"} THEN ppc[p]
                           ELSE removedWhile[p]]
    /\ UNCHANGED <<running, nextId, closeSignalled, consoleErrors>>
    /\ UNCHANGED getVars
    /\ UNCHANGED <<ppc, request, ptransport, presponse, issuedAtArrival, calls,
                   settled, registeredAtArrival>>

NextChurn == NextDeliver \/ ExternalRemove

SpecChurn == Init /\ [][NextChurn]_vars

NextErrors == Next \/ \E g \in Gets : TransportError(g)

SpecErrors == Init /\ [][NextErrors]_vars

\* ---------------------------------------------------------------- properties
Ping == "{\"type\":\"ping\"}"

\* The GET handlers that have executed line 30.
PastRegistration ==
    {g \in Gets : gpc[g] \in {"registered", "onerror", "subscribed", "connecting",
                              "returned", "threw"}}

\* The step in which handler p executes the lookup of line 10.
LookupStep(p) == ppc[p] = "decoding" /\ ppc'[p] \in {"handling", "done"}

\* The step in which the handleMessage that handler p awaits settles.
SettleStep(p) == ppc[p] = "handling" /\ ppc'[p] # "handling"

\* A finished handler changes nothing of its own any more.
DoneIsFinal(p) ==
    ppc[p] = "done" =>
        /\ ppc'[p] = "done"
        /\ presponse'[p] = presponse[p]
        /\ calls'[p] = calls[p]

\* C1: a message-delivery request that arrives after a stream-open response
\* carried session id S, and that carries S and a decodable payload, finds S's
\* transport, forwards the payload to it and answers 200; a request carrying
\* an id that was never issued answers 404.
C1_EndToEndDelivery ==
    \A p \in Posts :
        ppc[p] = "done" =>
            /\ request[p].sessionId \in issuedAtArrival[p] =>
                  /\ presponse[p].status = 200
                  /\ ptransport[p].sessionId = request[p].sessionId
                  /\ Len(calls[p]) = 1
            /\ request[p].sessionId = Nonexistent => presponse[p].status = 404

\* C2: when a stream-open handler invokes server.connect, and while it is
\* suspended at that await, its session id is in the registry and maps to its
\* transport.
C2_RegisteredAtConnect ==
    \A g \in Gets :
        gpc[g] \in {"subscribed", "connecting"} =>
            /\ transport[g].sessionId \in DOMAIN transports
            /\ transports[transport[g].sessionId] = transport[g]

\* C3: a stream-open request's session id is removed at most once, only after
\* its transport signalled close, and is not in the registry once close was
\* signalled.
C3_RemovedOnlyOnClose ==
    \A g \in Gets :
        /\ deleted[g] <= 1
        /\ deleted[g] >= 1 => g \in closeSignalled
        /\ g \in closeSignalled =>
              /\ deleted[g] = 1
              /\ transport[g].sessionId \notin DOMAIN transports

C5_DeliveredOnce ==
    [][\A p \in Posts :
          /\ (LookupStep(p) /\ request'[p].sessionId \in DOMAIN transports) =>
                /\ request[p].raw = Ping
                /\ ppc'[p] = "handling"
                /\ calls'[p] = <<[transport |-> transports[request'[p].sessionId],
                                  message |-> [type |-> "ping"]]>>
                /\ \A q \in Posts \ {p} : calls'[q] = calls[q]
          /\ (SettleStep(p) /\ settled'[p] = "resolved") =>
                /\ ppc'[p] = "done"
                /\ presponse'[p].status = 200
                /\ presponse'[p].body = <<>>
                /\ calls' = calls
          /\ (SettleStep(p) /\ settled'[p] = "rejected") => calls' = calls
          /\ DoneIsFinal(p)]_vars

\* Witness of C5: a request for a registered session was forwarded once and
\* answered 200.
C5_Witness ==
    \E p \in Posts :
        /\ ppc[p] = "done"
        /\ settled[p] = "resolved"
        /\ presponse[p].status = 200
        /\ Len(calls[p]) = 1
        /\ calls[p][1].transport = ExtTransport

\* C6: when handleMessage rejects, the response is 500 with an empty body and
\* the session id is still in the registry, mapped to the same transport, after
\* the request completed.
C6_FailureKeepsSession ==
    \A p \in Posts :
        (ppc[p] = "done" /\ settled[p] = "rejected") =>
            /\ presponse[p].status = 500
            /\ presponse[p].body = <<>>
            /\ request[p].sessionId \in DOMAIN transports
            /\ transports[request[p].sessionId] = ptransport[p]
            /\ ptransport[p].sessionId = request[p].sessionId

\* Witness of C6: a delivery failed with 500 and a later request to the same
\* id was delivered with 200.
C6_Witness ==
    \E p, q \in Posts :
        /\ p < q
        /\ ppc[p] = "done" /\ settled[p] = "rejected" /\ presponse[p].status = 500
        /\ ppc[q] = "done" /\ settled[q] = "resolved" /\ presponse[q].status = 200
        /\ request[q].sessionId = request[p].sessionId

\* C7: no handleMessage invocation of a request carrying session id S1 goes to
\* a transport of another session: not to one whose own id differs from S1, not
\* to one registered under another id, not to another stream-open's transport.
C7_NoCrossDelivery ==
    \A p \in Posts : \A i \in 1..Len(calls[p]) :
        LET t == calls[p][i].transport
            s1 == request[p].sessionId
        IN  /\ t.sessionId = s1
            /\ \A s2 \in DOMAIN transports \ {s1} : transports[s2] # t
            /\ \A g \in Gets : transport[g].sessionId # s1 => transport[g] # t

\* Witness of C7: two stream-opens in flight with distinct session ids, a
\* request carrying the id of the first has done its lookup, and a handleMessage
\* invocation has happened.
C7_Witness ==
    /\ \E g, h \in Gets :
          /\ gpc[g] = "connecting" /\ gpc[h] = "connecting"
          /\ transport[g].sessionId # transport[h].sessionId
          /\ \E p \in Posts :
                /\ ppc[p] = "done"
                /\ request[p].sessionId = transport[g].sessionId
    /\ \E q \in Posts : Len(calls[q]) > 0

\* C8: when server.connect rejects, the stream-open handler produces a
\* 5xx response, and the registry holds no entry for its session id.
C8_ConnectFailureGives5xx ==
    \A g \in Gets :
        gpc[g] = "threw" =>
            /\ response[g].status \in 500..599
            /\ transport[g].sessionId \notin DOMAIN transports

\* C9: no handler ends with a failure that it did not turn into a response.
C9_NoUnhandledFailure ==
    /\ \A g \in Gets : gpc[g] # "threw"
    /\ \A p \in Posts : ppc[p] # "threw"

\* C10: whenever no handler is in the middle of a synchronous step, a
\* stream-open's session id is a key of the registry exactly if the handler
\* registered it and its transport has not signalled close; and the transport
\* under a key is the one transport with that id.
C10_RegistryIffOpen ==
    running = None =>
        /\ \A g \in Gets :
              gpc[g] # "idle" =>
                 (transport[g].sessionId \in DOMAIN transports
                    <=> (g \in PastRegistration /\ g \notin closeSignalled))
        /\ \A k \in DOMAIN transports : transports[k].sessionId = k

\* C11: as long as a stream-open's transport has not signalled close, no step
\* removes its session id from the registry.
C11_KeptUntilClose ==
    [][\A g \in Gets :
          (transport[g].sessionId \in DOMAIN transports /\ g \notin closeSignalled')
             => transport[g].sessionId \in DOMAIN transports']_vars

\* C12: from the state in which a stream-open handler has constructed its
\* transport and not yet registered it, the only step is that handler's line
\* 30: it registers the id, and no other request moves.
C12_NoYieldBeforeRegistration ==
    [][\A g \in Gets :
          gpc[g] = "constructed" =>
             /\ gpc'[g] = "registered"
             /\ transport[g].sessionId \in DOMAIN transports'
             /\ transports'[transport[g].sessionId] = transport[g]
             /\ \A h \in Gets \ {g} : gpc'[h] = gpc[h]
             /\ UNCHANGED postVars]_vars

\* Witness of C12: a transport is constructed and not yet registered while a
\* message-delivery request and another stream-open are suspended.
C12_Witness ==
    \E g, h \in Gets : \E p \in Posts :
        /\ gpc[g] = "constructed"
        /\ gpc[h] = "connecting"
        /\ ppc[p] = "decoding"

\* C13: when a stream-open handler has returned its response, its session id
\* is not in the registry, and the step that returns the response starts from
\* a registry without it: the removal of line 35 came first.
C13_DeregisteredBeforeReturn ==
    [][\A g \in Gets :
          /\ (gpc[g] = "connecting" /\ gpc'[g] = "returned") =>
                /\ deleted[g] = 1
                /\ transport[g].sessionId \notin DOMAIN transports
          /\ gpc'[g] = "returned" =>
                /\ response'[g] # NoResponse
                /\ transport'[g].sessionId \notin DOMAIN transports']_vars

\* Witness of C13: a stream-open has returned its response while another
\* stream-open and a message-delivery request were in flight.
C13_Witness ==
    \E g, h \in Gets : \E p \in Posts :
        /\ gpc[g] = "returned"
        /\ response[g] # NoResponse
        /\ gpc[h] = "connecting"
        /\ ppc[p] # "idle"

IsWrite(o) == o.op = "write"
IsHead(o) == o.op = "writeHead"

\* The chunks written, each followed by one newline, in write order.
ExpectedBody(log) ==
    LET w == SelectSeq(log, IsWrite)
    IN  [i \in 1..(2 * Len(w)) |-> IF i % 2 = 1 THEN w[(i + 1) \div 2].data ELSE "\n"]

\* The status and headers of the last writeHead, or 200 and no headers.
ExpectedHead(log) ==
    LET h == SelectSeq(log, IsHead)
    IN  IF Len(h) = 0
        THEN [status |-> 200, headers |-> ""]
        ELSE [status |-> h[Len(h)].status, headers |-> h[Len(h)].headers]

\* C14: the response a stream-open handler returns has as body the chunks
\* passed to write, in write order, each followed by one newline, and as
\* status and headers those of the last writeHead call, or 200 and no headers.
C14_ResponseReflectsSink ==
    \A g \in Gets :
        gpc[g] = "returned" =>
            /\ response[g].body = ExpectedBody(sinkLog[g])
            /\ response[g].status = ExpectedHead(sinkLog[g]).status
            /\ response[g].headers = ExpectedHead(sinkLog[g]).headers

\* Witness of C14: one response built from a head and two writes, another
\* from two heads and no write.
C14_Witness ==
    \E g, h \in Gets :
        /\ gpc[g] = "returned" /\ sinkLog[g] = <<HeadOk, WriteEvent, WriteData>>
        /\ gpc[h] = "returned" /\ sinkLog[h] = <<HeadErr, HeadOk>>

\* C15: a step in which the error observer of lines 31 - 33 runs changes
\* neither the registry, nor any sink's body, status and headers, nor a
\* response, and removes no session.
C15_ErrorChangesNothing ==
    [][consoleErrors' # consoleErrors =>
          /\ transports' = transports
          /\ resp' = resp
          /\ response' = response
          /\ deleted' = deleted
          /\ closeSignalled' = closeSignalled]_vars

\* Witness of C15: an error was logged for a stream whose handshake had
\* written to the sink.
C15_Witness ==
    /\ consoleErrors > 0
    /\ \E g \in Gets : gpc[g] = "returned" /\ resp[g].body # <<>>

C17_PostNeverWritesRegistry ==
    [][ppc' # ppc => transports' = transports]_vars

\* Witness of C17: with a session registered, one request ended with 500 and
\* another on a decoding failure, and the session is still registered.
C17_Witness ==
    \E p, q \in Posts :
        /\ ppc[p] = "done" /\ presponse[p].status = 500
        /\ request[p].sessionId \in DOMAIN transports
        /\ ppc[q] = "threw"

\* C18: a request that carries a session id registered at its arrival and
\* removed while its payload was being decoded answers 404 without invoking
\* handleMessage; a request whose session was removed while its handleMessage
\* was pending invoked it once, on the transport it had found, and answers 200
\* if it resolved and 500 if it rejected.
C18_LookupOnceAfterDecoding ==
    \A p \in Posts :
        ppc[p] = "done" =>
            /\ ( /\ removedWhile[p] = "decoding"
                 /\ request[p].sessionId = ExtId
                 /\ ExtId \in registeredAtArrival[p] ) =>
                    /\ presponse[p] = NotFoundResponse
                    /\ calls[p] = <<>>
            /\ removedWhile[p] = "handling" =>
                    /\ ptransport[p] = ExtTransport
                    /\ Len(calls[p]) = 1
                    /\ settled[p] = "resolved" => presponse[p] = SuccessResponse
                    /\ settled[p] = "rejected" => presponse[p] = FailureResponse
                    /\ settled[p] \in {"resolved", "rejected"}

\* Witness of C18: both cases happened in one run: one request lost its
\* session while decoding, another while its handleMessage was pending, and
\* that one answered 200 although the session is gone.
C18_Witness ==
    \E p, q \in Posts :
        /\ ppc[p] = "done" /\ removedWhile[p] = "decoding"
        /\ request[p].sessionId = ExtId /\ ExtId \in registeredAtArrival[p]
        /\ ppc[q] = "done" /\ removedWhile[q] = "handling"
        /\ presponse[q].status = 200
        /\ ExtId \notin DOMAIN transports

====
